---- MODULE Spec2Model ----
(***************************************************************************)
(* mcpgate (src/index.js): a stdin/stdout <-> SSE+POST bridge.             *)
(*                                                                         *)
(* The model follows the Node event loop: every action is one callback or  *)
(* one continuation of an async function, run to its next real suspension  *)
(* (client.connect, transport.send).  The MCP SDK (Client,                 *)
(* SSEClientTransport) and the upstream server are the environment: they   *)
(* decide whether a connect or a POST succeeds and which SSE events and    *)
(* transport callbacks arrive.                                             *)
(*                                                                         *)
(* Handlers are written as operators over a record s that holds the        *)
(* fields of the source's state object together with the effects of the    *)
(* step (stdout writes, POSTs, timers); Commit(s) stores it.               *)
(***************************************************************************)
EXTENDS Integers, Sequences, FiniteSets, TLC

\* ----- config (src/index.js 25-32) -----
reconnectDelay == 1000
maxReconnectAttempts == 5
recoveryInterval == 30000

\* ----- bounds of the model -----
MaxLines == 3         \* stdin lines read in one run of SpecRecovery
EnvLines == 2         \* stdin lines read in one run of Spec
MaxTicks == 2         \* clock advances in one run of SpecRecovery
TickMs == 16000       \* one clock advance, in ms
StartTime == 40000    \* Date.now() at start (any value above recoveryInterval)
MaxErrTimers == 1     \* pending delayed startReconnection timers (EventSource onerror)
MaxOldConns == 1      \* replaced connections of one kind still awaiting client.connect
EnvBudget == 2        \* SSE events, transport callbacks and failed POSTs in one run
MaxConnectFails == 1  \* failed client.connect calls in one run of Spec
SmallLines == 1       \* stdin lines read in one run of SpecSmall
SmallBudget == 1      \* SSE events, transport callbacks and failed POSTs in one run of SpecSmall
SmallConnectFails == 1 \* failed client.connect calls in one run of SpecSmall
RotateLines == 1       \* stdin lines read in one run of SpecRotate
RotateBudget == 1      \* SSE events, transport callbacks and failed POSTs in one run of SpecRotate
RotateConnectFails == 2 \* failed client.connect calls in one run of SpecRotate
AnswerLines == 1       \* stdin lines read in one run of SpecAnswers
AnswerBudget == 2      \* SSE events in one run of SpecAnswers
StdinLines == 2        \* stdin lines read in one run of SpecStdin
StdinBudget == 1       \* SSE events in one run of SpecStdin
ErrorsLines == 1       \* stdin lines read in one run of SpecErrors
ErrorsBudget == 2      \* SSE events and failures in one run of SpecErrors
MaxTriggers == 2       \* trigger substrings in one message of SpecClassifier
MaxAdvisories == 2     \* error frames counted in one loss of connection
MaxQueue == 3          \* frames in a queue of SpecPromote
MaxSignals == 2        \* SIGINT/SIGTERM signals received in one run of SpecShutdown
MaxLatePosts == 2      \* POSTs after the first signal that are counted
ShutdownLines == 1     \* stdin lines read in one run of SpecShutdown
ShutdownBudget == 1    \* SSE events, transport callbacks and failed POSTs in one run of SpecShutdown
ShutdownConnectFails == 1 \* failed client.connect calls in one run of SpecShutdown

\* ----- frames -----
NoId == "undef"      \* message.id === undefined
NullId == "null"     \* null
Frame(uid, id, method, requestId, reason) ==
  [uid |-> uid, id |-> id, method |-> method, requestId |-> requestId, reason |-> reason]

\* uid is the position of the line on stdin (0: made by the bridge); it is not
\* part of the JSON, it only tells two equal frames apart.
handshakeMessage == Frame(0, "n0", "initialize", NoId, "none")

IsInitialize(m) == m.method = "initialize" /\ m.id = "n0"

\* The test on thisRequestId left out: every frame counts as having an id.
TruthyAlways(id) == TRUE

\* JavaScript truthiness of thisRequestId: null (no id), 0 and "" are falsy.
Truthy(id) == id \notin {NoId, "n0", "sEmpty"}

RequestFrames(uid) ==
  { Frame(uid, "n1", "ping", NoId, "none"),
    Frame(uid, "n0", "initialize", NoId, "none") }
NotificationFrames(uid) ==
  { Frame(uid, NoId, "notifications/other", NoId, "none") }
CancelFrames(uid) ==
  { Frame(uid, NoId, "notifications/cancelled", "n1", "Request timed out"),
    Frame(uid, NoId, "notifications/cancelled", "n0", "other") }
StdinFrames(uid) == RequestFrames(uid) \cup NotificationFrames(uid) \cup CancelFrames(uid)

\* ----- error messages: a text and the trigger substrings it contains -----
Msg(text, subs) == [text |-> text, subs |-> subs]
Includes(message, sub) == sub \in message.subs
FetchFailed == Msg("fetch failed", {"fetch failed"})
Boom == Msg("boom", {})
NotConnected == Msg("Not connected", {"Not connected"})
Aborted == Msg("This operation was aborted", {})
NullSend == Msg("Cannot read properties of null (reading 'send')", {})
SendErrors == {FetchFailed, Boom}

\* Errors of the upstream and the network, one for each substring the
\* classifiers look for.
SessionExpired == Msg("Session expired", {"Session expired"})
InvalidSession == Msg("Invalid session", {"Invalid session"})
Http404 == Msg("Error POSTing to endpoint (HTTP 404)", {"404"})
BeforeInitialization ==
  Msg("Received request before initialization was complete",
      {"Received request before initialization was complete"})
ConnectionLost == Msg("Connection lost", {"Connection lost"})
NetworkError == Msg("network error", {"network error"})
EConnRefused == Msg("connect ECONNREFUSED 127.0.0.1:8080", {"ECONNREFUSED"})
RequestTimedOut == Msg("Request timed out", {"Request timed out", "timed out"})
UpstreamErrors ==
  { Msg("Could not find session", {"Could not find session"}), SessionExpired, InvalidSession,
    Http404, BeforeInitialization, ConnectionLost, FetchFailed, NetworkError,
    EConnRefused, NotConnected, RequestTimedOut, Boom }

\* No send or transport handler was given an error.
NoCaught == [kind |-> "none"]

VARIABLES
  \* the source's state object (src/index.js 34-46) and config.sessionId
  client, transport, messageQueue, transportReady, reconnecting,
  reconnectAttempts, originalSessionId, consecutiveTimeouts,
  lastReconnectAttempt, reconnectTimer, sessionId,
  \* the runtime
  now,          \* Date.now()
  timers,       \* pending setTimeout(executeReconnection) callbacks
  errTimers,    \* pending setTimeout(startReconnection, 1000) callbacks
  inflight,     \* transport.send calls awaiting their result
  conn,         \* the createConnection awaiting client.connect on state.transport
  oldConns,     \* createConnection calls awaiting connect on a replaced transport
  stdout,       \* frames written to stdout by the last step
  scheduled,    \* the delay the last step gave the reconnect timer, in 1/64 ms (0: none)
  caught,       \* the error the last step's send or transport handler was given
  signals,      \* SIGINT/SIGTERM signals received
  shutDelays,   \* shutdown calls waiting out their 500 ms
  exitCode,     \* "none" while the process runs, else the code of process.exit
  \* the environment
  sdkChains,    \* the SDK's Client keeps the handlers the bridge set on the transport
  env,          \* what the environment may still do: [lines, ticks, events, fails]
                \* and closeFails: the client.close() of shutdown rejects,
                \* errs: the errors the sender and the transport may report
  \* history
  nread,        \* lines read from stdin
  stdinLog,     \* per line read: had it an id, was the bridge READY
  lastLine,     \* the last line read
  timeoutRun,   \* length of the run of timeout cancellations that ends the input read
  runStarts,    \* reconnection cycles started by the lines of that run
  delivered,    \* uids of stdin frames whose POST was answered
  resent,       \* a stdin frame's POST was answered a second time
  cancelled,    \* uids of frames removed from the queue by a cancellation
  everPosted,   \* uids of stdin frames POSTed
  overtaken,    \* a frame with an id read since the last reconnect was first POSTed after a later one
  cut,          \* lines read before the last reconnect
  everReady, reentered,
  firstPost,    \* the first frame POSTed since READY was last re-entered
  attemptNo,    \* reconnect connection attempts started in the current reconnection cycle
  latePosts,    \* POSTs issued since the first signal, counted up to MaxLatePosts
  lateOther,    \* one of them was not the shutdown notification
  leftReady,    \* the connection that state.transport holds was READY and left it
  advisories    \* error frames synthesized since READY was left, up to MaxAdvisories

progVars == <<client, transport, messageQueue, transportReady, reconnecting,
              reconnectAttempts, originalSessionId, consecutiveTimeouts,
              lastReconnectAttempt, reconnectTimer, sessionId>>
runVars == <<timers, errTimers, inflight, conn, oldConns, stdout, scheduled, caught, shutDelays,
             exitCode>>
histVars == <<delivered, resent, cancelled, everPosted, overtaken, cut, everReady, reentered, firstPost,
              attemptNo, latePosts, lateOther, leftReady, advisories>>
lineVars == <<nread, stdinLog, lastLine, timeoutRun, runStarts>>
vars == <<progVars, runVars, histVars, lineVars, now, sdkChains, env, signals>>

\* The record the handlers work on.
Cur ==
  [ client |-> client, transport |-> transport, messageQueue |-> messageQueue,
    transportReady |-> transportReady, reconnecting |-> reconnecting,
    reconnectAttempts |-> reconnectAttempts, originalSessionId |-> originalSessionId,
    consecutiveTimeouts |-> consecutiveTimeouts,
    lastReconnectAttempt |-> lastReconnectAttempt, reconnectTimer |-> reconnectTimer,
    sessionId |-> sessionId,
    timers |-> timers, errTimers |-> errTimers, inflight |-> inflight,
    conn |-> conn, oldConns |-> oldConns, stdout |-> <<>>,
    delivered |-> delivered, resent |-> resent, cancelled |-> cancelled, everPosted |-> everPosted,
    overtaken |-> overtaken, cut |-> cut,
    everReady |-> everReady, reentered |-> reentered, firstPost |-> firstPost,
    attemptNo |-> attemptNo, scheduled |-> 0, caught |-> NoCaught,
    shutDelays |-> shutDelays, exitCode |-> exitCode,
    latePosts |-> latePosts, lateOther |-> lateOther ]

Commit(s) ==
  /\ client' = s.client
  /\ transport' = s.transport
  /\ messageQueue' = s.messageQueue
  /\ transportReady' = s.transportReady
  /\ reconnecting' = s.reconnecting
  /\ reconnectAttempts' = s.reconnectAttempts
  /\ originalSessionId' = s.originalSessionId
  /\ consecutiveTimeouts' = s.consecutiveTimeouts
  /\ lastReconnectAttempt' = s.lastReconnectAttempt
  /\ reconnectTimer' = s.reconnectTimer
  /\ sessionId' = s.sessionId
  /\ timers' = s.timers
  /\ errTimers' = s.errTimers
  /\ inflight' = s.inflight
  /\ conn' = s.conn
  /\ oldConns' = s.oldConns
  /\ stdout' = s.stdout
  /\ delivered' = s.delivered
  /\ resent' = s.resent
  /\ cancelled' = s.cancelled
  /\ everPosted' = s.everPosted
  /\ overtaken' = s.overtaken
  /\ cut' = s.cut
  /\ everReady' = s.everReady
  /\ reentered' = s.reentered
  /\ firstPost' = s.firstPost
  /\ attemptNo' = s.attemptNo
  /\ scheduled' = s.scheduled
  /\ caught' = s.caught
  /\ shutDelays' = s.shutDelays
  /\ exitCode' = s.exitCode
  /\ latePosts' = s.latePosts
  /\ lateOther' = s.lateOther
  /\ advisories' =
       IF \/ ~s.everReady
          \/ s.transportReady
          \/ (/\ s.reconnectAttempts >= maxReconnectAttempts
              /\ ~s.reconnecting /\ s.timers = 0 /\ s.conn = "none")
         THEN 0
         ELSE LET n == advisories
                         + Cardinality({ i \in DOMAIN s.stdout : "code" \in DOMAIN s.stdout[i] })
              IN IF n <= MaxAdvisories THEN n ELSE MaxAdvisories
  /\ leftReady' = IF s.transport # "open" THEN FALSE
                  ELSE leftReady \/ (transportReady /\ ~s.transportReady)

\* ----- stdout -----
ErrorFrame(id, code, message) == [type |-> "error", id |-> id, code |-> code, message |-> message]

getErrorCodeForMessage(message) ==
  IF Includes(message, "Could not find session") \/ Includes(message, "Session expired")
       \/ Includes(message, "Invalid session") THEN "MethodNotFound"
  ELSE IF Includes(message, "timed out") \/ Includes(message, "timeout") THEN "RequestTimeout"
  ELSE IF Includes(message, "connection") \/ Includes(message, "Connection lost")
       \/ Includes(message, "fetch failed") \/ Includes(message, "ECONNREFUSED")
    THEN "ConnectionClosed"
  ELSE IF Includes(message, "parse") \/ Includes(message, "Invalid JSON") THEN "ParseError"
  ELSE IF Includes(message, "invalid request") \/ Includes(message, "Invalid request")
    THEN "InvalidRequest"
  ELSE "InternalError"

\* writeErrorMessage testing its id against undefined only.
writeErrorMessageNullId(s, message, code, id) ==
  LET c == IF code = "auto" THEN getErrorCodeForMessage(message) ELSE code
      responseId == IF id # NoId THEN id ELSE "error-<unixMs>"
  IN [s EXCEPT !.stdout = Append(@, ErrorFrame(responseId, c, message))]

\* code "auto": the caller passed no code; id NoId: the caller passed no id.
writeErrorMessage(s, message, code, id) ==
  LET c == IF code = "auto" THEN getErrorCodeForMessage(message) ELSE code
      responseId == IF id # NoId /\ id # NullId THEN id ELSE "error-<unixMs>"
  IN [s EXCEPT !.stdout = Append(@, ErrorFrame(responseId, c, message))]

FailedToReconnect(cause) ==
  Msg("Failed to reconnect after 5 attempts", cause.subs)
ConnectionRefused == Msg("Connection refused", {})
SseClosed == Msg("SSE connection closed, client should reconnect", {"connection"})

\* ----- the reconnection supervisor -----
isFatalConnectionError(error) ==
  \/ Includes(error, "Could not find session")
  \/ Includes(error, "404")
  \/ Includes(error, "Connection lost")
  \/ Includes(error, "fetch failed")
  \/ Includes(error, "network error")
  \/ Includes(error, "Not connected")
  \/ Includes(error, "Request timed out")
  \/ Includes(error, "Received request before initialization was complete")

\* Math.pow for a whole base and exponent.
RECURSIVE Pow(_, _)
Pow(b, n) == IF n = 0 THEN 1 ELSE b * Pow(b, n - 1)

Min(a, b) == IF a <= b THEN a ELSE b

\* The cap of the backoff delay, in ms.
maxDelay == 10000

\* The delay of the timer, in 1/64 ms: 1.5^n is 3^n / 2^n, which a double holds
\* exactly, and the product is a whole number of 1/64 ms wherever it is below
\* the cap (n <= 5); above the cap the rounding of the division is cut off.
backoffDelay(attempts) ==
  Min((reconnectDelay * Pow(3, attempts - 1) * 64) \div Pow(2, attempts - 1), maxDelay * 64)

startReconnection(s) ==
  IF s.reconnecting THEN s
  ELSE
    LET s1 == IF s.reconnectTimer
                THEN [s EXCEPT !.reconnectTimer = FALSE, !.timers = @ - 1]
                ELSE s
        timeSinceLastAttempt == now - s1.lastReconnectAttempt
        s2 == IF timeSinceLastAttempt > recoveryInterval
                THEN [s1 EXCEPT !.reconnectAttempts = 0]
                ELSE s1
    IN [s2 EXCEPT !.reconnectAttempts = @ + 1,
                  !.lastReconnectAttempt = now,
                  !.reconnecting = TRUE,
                  !.reconnectTimer = TRUE,
                  !.timers = @ + 1,
                  !.scheduled = backoffDelay(s2.reconnectAttempts + 1)]

\* ensureHandshakeInQueue without the search for a handshake already queued.
ensureHandshakeInQueueAdding(q) == <<handshakeMessage>> \o q

ensureHandshakeInQueue(q) ==
  LET idx == { i \in 1..Len(q) : IsInitialize(q[i]) } IN
  IF idx # {}
    THEN LET handshakeIndex == CHOOSE i \in idx : \A j \in idx : i <= j IN
         IF handshakeIndex > 1
           THEN <<q[handshakeIndex]>> \o SubSeq(q, 1, handshakeIndex - 1)
                  \o SubSeq(q, handshakeIndex + 1, Len(q))
           ELSE q
    ELSE <<handshakeMessage>> \o q


\* ----- POSTs and the queue drain -----
\* transport.send(m) on a transport whose endpoint is known issues the POST.
Post(s, m) ==
  [s EXCEPT !.firstPost = IF s.reentered /\ @ = <<>>
                            THEN <<[method |-> m.method, id |-> m.id]>> ELSE @,
            !.everPosted = IF m.uid > 0 THEN @ \cup {m.uid} ELSE @,
            !.overtaken = @ \/ (/\ m.uid > s.cut
                                 /\ m.id # NoId
                                 /\ m.uid \notin s.everPosted
                                 /\ \E v \in s.everPosted :
                                      v > m.uid /\ stdinLog[v].hasId),
            !.latePosts = IF signals > 0 /\ @ < MaxLatePosts THEN @ + 1 ELSE @,
            !.lateOther = @ \/ signals > 0]

InFlight(kind, m, owner) == [kind |-> kind, f |-> m, cur |-> TRUE, owner |-> owner]

\* transportReady goes from false to true.
MarkReady(s) ==
  [s EXCEPT !.transportReady = TRUE,
            !.everReady = TRUE,
            !.reentered = @ \/ s.everReady,
            !.firstPost = IF s.everReady THEN <<>> ELSE @,
            !.attemptNo = 0]

\* The caller awaiting processQueue resumes: createConnection returns true to
\* executeReconnection (owner "exec"), which clears the reconnecting flag.
DrainDone(s, owner) ==
  IF owner = "exec" THEN [s EXCEPT !.reconnecting = FALSE] ELSE s

\* processQueue's catch block; the loop is left in both branches.
processQueueCatch(s, message, error, owner) ==
  LET s1 == [s EXCEPT !.messageQueue = <<message>> \o @, !.transportReady = FALSE]
  IN DrainDone(IF isFatalConnectionError(error) THEN startReconnection(s1) ELSE s1, owner)

\* processQueue sending the head of the queue without taking it off.
processQueuePeek(s, live, owner) ==
  IF s.messageQueue = <<>> THEN DrainDone(s, owner)
  ELSE LET message == Head(s.messageQueue)
       IN IF live /\ s.transport = "open"
            THEN [Post(s, message) EXCEPT !.inflight = Append(@, InFlight("drain", message, owner))]
            ELSE processQueueCatch([s EXCEPT !.messageQueue = Tail(@)], message, Aborted, owner)

\* processQueue from the loop test to the next await of transport.send.  live:
\* the transport passed in is still state.transport; a replaced transport has
\* been closed and aborted, and so has one the SDK closed itself.
processQueue(s, live, owner) ==
  IF s.messageQueue = <<>> THEN DrainDone(s, owner)
  ELSE LET message == Head(s.messageQueue)
           s1 == [s EXCEPT !.messageQueue = Tail(@)]
       IN IF live /\ s.transport = "open"
            THEN [Post(s1, message) EXCEPT !.inflight = Append(@, InFlight("drain", message, owner))]
            ELSE processQueueCatch(s1, message, Aborted, owner)

\* ----- client -> server -----
handleRequestCatch(s, message, thisRequestId, error) ==
  LET s1 == [s EXCEPT !.transportReady = FALSE]
      s2 == IF Truthy(thisRequestId)
              THEN [s1 EXCEPT !.messageQueue = Append(@, message)]
              ELSE s1
  IN IF isFatalConnectionError(error) THEN startReconnection(s2) ELSE s2

\* handleRequestMessage(state.transport, message, thisRequestId) up to its await.
handleRequestMessage(s, message, thisRequestId) ==
  IF ~s.transportReady
    THEN IF Truthy(thisRequestId)
           THEN LET s1 == [s EXCEPT !.messageQueue = Append(@, message)]
                    timeSinceLastAttempt == now - s1.lastReconnectAttempt
                IN IF timeSinceLastAttempt > recoveryInterval /\ ~s1.reconnecting
                     THEN startReconnection(s1)
                     ELSE s1
           ELSE s
  ELSE IF s.transport = "open"
    THEN [Post(s, message) EXCEPT !.inflight = Append(@, InFlight("req", message, "none"))]
  ELSE handleRequestCatch(s, message, thisRequestId,
         CASE s.transport = "null" -> NullSend
           [] s.transport = "starting" -> NotConnected
           [] OTHER -> Aborted)

ReasonIncludesTimeout(reason) == reason = "Request timed out"

\* The comparison of the filter inverted: only the cancelled frames are kept.
filterCancelledInverted(q, requestId) == SelectSeq(q, LAMBDA m : m.id = requestId)

\* state.messageQueue.filter(m => m.id !== requestId)
filterCancelled(q, requestId) == SelectSeq(q, LAMBDA m : m.id # requestId)

\* The reconnecting flag left out of the test.
timeoutTriggerUnguarded(s) == s.consecutiveTimeouts >= 3

\* state.consecutiveTimeouts >= 3 && !state.reconnecting
timeoutTrigger(s) == s.consecutiveTimeouts >= 3 /\ ~s.reconnecting

handleStdinMessage(s, message) ==
  IF message.id # NoId THEN handleRequestMessage(s, message, message.id)
  ELSE IF message.method = "notifications/cancelled"
    THEN LET requestId == message.requestId
             s1 == IF ReasonIncludesTimeout(message.reason)
                     THEN LET a == [s EXCEPT !.consecutiveTimeouts = @ + 1] IN
                          IF timeoutTrigger(a)
                            THEN [startReconnection([a EXCEPT !.transportReady = FALSE])
                                    EXCEPT !.consecutiveTimeouts = 0]
                            ELSE a
                     ELSE s
             s2 == [s1 EXCEPT
                      !.messageQueue = filterCancelled(@, requestId),
                      !.cancelled = @ \cup { s1.messageQueue[i].uid : i \in
                                       { j \in DOMAIN s1.messageQueue :
                                           s1.messageQueue[j].id = requestId } }]
         IN handleRequestMessage(s2, message, NoId)
  ELSE handleRequestMessage(s, message, NoId)

\* What JSON.parse throws on a line that is not JSON.  V8 quotes the line in
\* the message from Node 20 on, so the message of a line that holds the words
\* "fetch failed" includes them; older versions name only the position.
SyntaxErrors ==
  { Msg("Unexpected token in JSON at position 0", {}),
    Msg("Unexpected token, \"fetch failed\" is not valid JSON", {"fetch failed"}) }

ConnectionLostNotice(error) ==
  Msg("Connection lost, client should reconnect", {"Connection lost"} \cup error.subs)

\* handleStdinMessage's catch block (853-864); thisRequestId is still null when
\* JSON.parse throws.
handleStdinCatch(s, error, thisRequestId) ==
  IF isFatalConnectionError(error)
    THEN startReconnection(
           [writeErrorMessage(s, ConnectionLostNotice(error), "ConnectionClosed", thisRequestId)
              EXCEPT !.transportReady = FALSE])
    ELSE s

\* ----- server -> client -----
ResultFrame(id) == [type |-> "result", id |-> id, message |-> Boom]
ServerError(id, message) == [type |-> "error", id |-> id, message |-> message]
MethodFrame == [type |-> "method", id |-> NoId, message |-> Boom]
CancelNotification(id, message) == [type |-> "cancelled", id |-> id, message |-> message]
CouldNotFindSession == Msg("Could not find session", {"Could not find session"})
SseFrames ==
  { ResultFrame("n1"), MethodFrame, ServerError("n1", Boom), ServerError("n1", CouldNotFindSession) }

IsSessionError(message) ==
  \/ Includes(message, "Could not find session")
  \/ Includes(message, "Session expired")
  \/ Includes(message, "Invalid session")
  \/ Includes(message, "Received request before initialization was complete")

\* handleResponseMessage taking every frame, error responses too, as the sign
\* that the transport is ready.
handleResponseMessageAnyReady(s, jsonData) ==
  LET s1 == IF ~s.transportReady
              THEN [processQueue(MarkReady(s), TRUE, "none") EXCEPT !.consecutiveTimeouts = 0]
              ELSE s
      s2 == [s1 EXCEPT !.stdout = Append(@, jsonData)]
  IN CASE jsonData.type = "result" -> [s2 EXCEPT !.consecutiveTimeouts = 0]
       [] jsonData.type = "error" ->
            IF IsSessionError(jsonData.message)
              THEN startReconnection([s2 EXCEPT !.transportReady = FALSE])
              ELSE [s2 EXCEPT !.stdout = Append(@, CancelNotification(jsonData.id, jsonData.message))]
       [] OTHER -> s2

\* handleResponseMessage writing the cancellation derivative ahead of the frame.
handleResponseMessageDerivativeFirst(s, jsonData) ==
  LET s1 == IF ~s.transportReady /\ jsonData.type # "error"
              THEN [processQueue(MarkReady(s), TRUE, "none") EXCEPT !.consecutiveTimeouts = 0]
              ELSE s
      s2 == [s1 EXCEPT !.stdout = Append(@, jsonData)]
  IN CASE jsonData.type = "result" -> [s2 EXCEPT !.consecutiveTimeouts = 0]
       [] jsonData.type = "error" ->
            IF IsSessionError(jsonData.message)
              THEN startReconnection([s2 EXCEPT !.transportReady = FALSE])
              ELSE [s1 EXCEPT !.stdout = @ \o <<CancelNotification(jsonData.id, jsonData.message),
                                                 jsonData>>]
       [] OTHER -> s2

handleResponseMessage(s, jsonData) ==
  LET s1 == IF ~s.transportReady /\ jsonData.type # "error"
              THEN [processQueue(MarkReady(s), TRUE, "none") EXCEPT !.consecutiveTimeouts = 0]
              ELSE s
      s2 == [s1 EXCEPT !.stdout = Append(@, jsonData)]
  IN CASE jsonData.type = "result" -> [s2 EXCEPT !.consecutiveTimeouts = 0]
       [] jsonData.type = "error" ->
            IF IsSessionError(jsonData.message)
              THEN startReconnection([s2 EXCEPT !.transportReady = FALSE])
              ELSE [s2 EXCEPT !.stdout = Append(@, CancelNotification(jsonData.id, jsonData.message))]
       [] OTHER -> s2

\* ----- transport callbacks -----
transportOnClose(s) ==
  LET s1 == writeErrorMessage([s EXCEPT !.transportReady = FALSE], SseClosed, "auto", NoId)
  IN IF ~s1.reconnecting THEN startReconnection(s1) ELSE s1

transportOnError(s, error) ==
  IF isFatalConnectionError(error)
    THEN startReconnection([s EXCEPT !.transportReady = FALSE])
    ELSE writeErrorMessage(s,
           Msg("SSE connection error, client should retry", {"connection"} \cup error.subs),
           "auto", NoId)

\* ----- createConnection and executeReconnection -----
\* createConnection 144-181: close the EventSource, abort the POSTs in flight,
\* close the client.  client.close() closes the transport, which calls its
\* onclose; the handler set at 267 is the one called when the SDK chains.
CloseExisting(s) ==
  IF s.client
    THEN LET s1 == [s EXCEPT
                      !.inflight = [i \in DOMAIN @ |-> [@[i] EXCEPT !.cur = FALSE]],
                      !.oldConns = IF s.conn = "none" THEN @
                                   ELSE [@ EXCEPT ![s.conn] =
                                           IF @ < MaxOldConns THEN @ + 1 ELSE @],
                      !.conn = "none"]
             s2 == IF sdkChains THEN transportOnClose(s1) ELSE s1
         IN [s2 EXCEPT !.client = FALSE, !.transport = "null"]
    ELSE [s EXCEPT !.client = FALSE, !.transport = "null"]

\* executeReconnection after createConnection(true) has returned (418-437).
executeReconnectionAfter(s, success) ==
  IF success THEN [s EXCEPT !.reconnecting = FALSE]
  ELSE IF s.reconnectAttempts < maxReconnectAttempts
    THEN startReconnection([s EXCEPT !.reconnecting = FALSE])
  ELSE [writeErrorMessage(s, FailedToReconnect(ConnectionRefused), "ConnectionClosed", NoId)
          EXCEPT !.reconnecting = FALSE, !.attemptNo = 0]

\* createConnection's catch block (309-332), and for a reconnect its caller.
createConnectionCatch(s, isReconnect, error) ==
  IF isReconnect
    THEN IF s.reconnectAttempts < maxReconnectAttempts
           THEN executeReconnectionAfter(s, FALSE)
           ELSE executeReconnectionAfter(
                  writeErrorMessage(s, FailedToReconnect(error), "auto", NoId), FALSE)
    ELSE startReconnection(
           [writeErrorMessage(s, error, "auto", NoId) EXCEPT !.reconnectAttempts = 1])

\* createConnectionReconnect storing the session id of the attempt as the original one.
createConnectionReconnectStoring(t) ==
  IF t.reconnectAttempts >= maxReconnectAttempts
    THEN executeReconnectionAfter(
           [writeErrorMessage(t, FailedToReconnect(ConnectionRefused), "ConnectionClosed", NoId)
              EXCEPT !.reconnecting = FALSE], FALSE)
    ELSE [t EXCEPT !.sessionId = IF t.reconnectAttempts <= 2
                                   THEN t.originalSessionId ELSE "fresh",
                   !.originalSessionId = IF t.reconnectAttempts <= 2
                                           THEN @ ELSE "fresh",
                   !.transport = "starting",
                   !.transportReady = FALSE,
                   !.client = TRUE,
                   !.conn = "re",
                   !.attemptNo = @ + 1]

\* createConnection(true) after the old client is closed: the early return at
\* the maximum of attempts (183-195), else up to the await of client.connect.
createConnectionReconnect(t) ==
  IF t.reconnectAttempts >= maxReconnectAttempts
    THEN executeReconnectionAfter(
           [writeErrorMessage(t, FailedToReconnect(ConnectionRefused), "ConnectionClosed", NoId)
              EXCEPT !.reconnecting = FALSE], FALSE)
    ELSE [t EXCEPT !.sessionId = IF t.reconnectAttempts <= 2
                                   THEN t.originalSessionId ELSE "fresh",
                   !.transport = "starting",
                   !.transportReady = FALSE,
                   !.client = TRUE,
                   !.conn = "re",
                   !.attemptNo = @ + 1]

\* The timer callback.
executeReconnection(s) ==
  createConnectionReconnect(
    CloseExisting([s EXCEPT !.reconnectTimer = FALSE, !.timers = @ - 1,
                            !.messageQueue = ensureHandshakeInQueue(@)]))

\* ----- shutdown -----
shutdownNotification ==
  Frame(0, NoId, "notifications/cancelled", "shutdown-<unixMs>", "Client shutting down")

NullClose == Msg("Cannot read properties of null (reading 'close')", {})
CloseFailed == Msg("close failed", {})

\* "await state.client.close()" and what follows it (789-798).  client.close()
\* closes the transport at once, and process.exit runs before the next event.
shutdownClose(s) ==
  IF ~s.client
    THEN [writeErrorMessage(s, NullClose, "ConnectionClosed", NoId) EXCEPT !.exitCode = "1"]
  ELSE IF env.closeFails
    THEN [writeErrorMessage(s, CloseFailed, "ConnectionClosed", NoId) EXCEPT !.exitCode = "1"]
  ELSE [CloseExisting(s) EXCEPT !.exitCode = "0"]

\* The catch block around the shutdown notification (782-785).
shutdownCatch(s, error) ==
  shutdownClose(writeErrorMessage(s, error, "ConnectionClosed", NoId))

\* shutdown() up to its first await that waits for I/O.  The SDK's client has
\* no transport once its transport has closed.
shutdown(s) ==
  IF ~s.client THEN [s EXCEPT !.exitCode = "0"]
  ELSE IF s.transport = "closed" THEN shutdownClose(s)
  ELSE IF s.transport = "open"
    THEN [s EXCEPT !.inflight = Append(@, InFlight("shutdown", shutdownNotification, "none")),
                   !.latePosts = IF @ < MaxLatePosts THEN @ + 1 ELSE @]
  ELSE shutdownCatch(s, NotConnected)

\* ===== the state machine =====
\* The state when start() has returned: createConnection(false) has run up to
\* its await of client.connect.
InitWithQueue(q) ==
  /\ client = TRUE
  /\ transport = "starting"
  /\ messageQueue = q
  /\ transportReady = FALSE
  /\ reconnecting = FALSE
  /\ reconnectAttempts = 0
  /\ originalSessionId = "orig"
  /\ sessionId = "orig"
  /\ consecutiveTimeouts = 0
  /\ lastReconnectAttempt = 0
  /\ reconnectTimer = FALSE
  /\ now = StartTime
  /\ timers = 0
  /\ errTimers = 0
  /\ inflight = <<>>
  /\ conn = "init"
  /\ oldConns = [init |-> 0, re |-> 0]
  /\ stdout = <<>>
  /\ sdkChains \in BOOLEAN
  /\ nread = 0
  /\ stdinLog = <<>>
  /\ lastLine = handshakeMessage
  /\ timeoutRun = 0
  /\ runStarts = 0
  /\ delivered = {}
  /\ resent = FALSE
  /\ cancelled = {}
  /\ everPosted = {}
  /\ overtaken = FALSE
  /\ cut = 0
  /\ everReady = FALSE
  /\ reentered = FALSE
  /\ firstPost = <<>>
  /\ attemptNo = 0
  /\ scheduled = 0
  /\ caught = NoCaught
  /\ signals = 0
  /\ shutDelays = 0
  /\ exitCode = "none"
  /\ latePosts = 0
  /\ lateOther = FALSE
  /\ leftReady = FALSE
  /\ advisories = 0

InitProgram == InitWithQueue(<<>>)

Init ==
  /\ InitProgram
  /\ env = [lines |-> EnvLines, ticks |-> 0, events |-> EnvBudget,
            fails |-> MaxConnectFails,
            closeFails |-> FALSE, errs |-> SendErrors]

Remove(seq, i) == SubSeq(seq, 1, i - 1) \o SubSeq(seq, i + 1, Len(seq))

\* process.exit has not been called.
Running == exitCode = "none"

\* No POST is waiting for its abort to be reported: the teardown of
\* createConnection aborts the fetches of the replaced transport (162-170), and
\* their rejections are delivered before the next I/O event.
Settled == \A i \in DOMAIN inflight : inflight[i].cur /\ transport = "open"

\* The clock advances by TickMs.  Every pending timer has a shorter delay (at
\* most 10000 ms, 386-389 and 717) and fires before the clock gets that far.
Tick ==
  /\ Running
  /\ Settled
  /\ timers = 0 /\ errTimers = 0
  /\ env.ticks > 0
  /\ env' = [env EXCEPT !.ticks = @ - 1]
  /\ now' = now + TickMs
  /\ stdout' = <<>>
  /\ scheduled' = 0
  /\ caught' = NoCaught
  /\ UNCHANGED <<progVars, timers, errTimers, inflight, conn, oldConns, histVars,
                 shutDelays, exitCode,
                 lineVars, sdkChains, signals>>

\* A line arrives on stdin (handleStdinMessage with a line that parses).
StdinLine ==
  /\ Running
  /\ Settled
  /\ signals = 0
  /\ env.lines > 0
  /\ env' = [env EXCEPT !.lines = @ - 1]
  /\ \E f \in StdinFrames(nread + 1) :
       LET s == handleStdinMessage(Cur, f)
           isTimeout == f.method = "notifications/cancelled" /\ ReasonIncludesTimeout(f.reason)
           started == IF s.reconnecting /\ ~reconnecting THEN 1 ELSE 0
       IN /\ nread' = nread + 1
          /\ stdinLog' = Append(stdinLog, [hasId |-> f.id # NoId, ready |-> transportReady])
          /\ lastLine' = f
          /\ timeoutRun' = IF isTimeout THEN timeoutRun + 1 ELSE 0
          /\ runStarts' = IF isTimeout THEN (IF timeoutRun = 0 THEN 0 ELSE runStarts) + started
                          ELSE 0
          /\ Commit(s)
  /\ UNCHANGED <<now, sdkChains, signals>>

\* A non-blank line that is not JSON arrives on stdin.
StdinInvalid ==
  /\ Running
  /\ Settled
  /\ signals = 0
  /\ env.lines > 0
  /\ env' = [env EXCEPT !.lines = @ - 1]
  /\ \E error \in SyntaxErrors : Commit(handleStdinCatch(Cur, error, NullId))
  /\ UNCHANGED <<now, lineVars, sdkChains, signals>>

\* The reconnect timer fires.
TimerFire ==
  /\ Running
  /\ Settled
  /\ timers > 0
  /\ Commit([executeReconnection(Cur) EXCEPT !.cut = nread])
  /\ UNCHANGED <<now, env, lineVars, sdkChains, signals>>

\* The delayed startReconnection of the EventSource error handler fires.
ErrTimerFire ==
  /\ Running
  /\ Settled
  /\ errTimers > 0
  /\ Commit(startReconnection([Cur EXCEPT !.errTimers = @ - 1]))
  /\ UNCHANGED <<now, env, lineVars, sdkChains, signals>>

\* transport.start() returns inside client.connect: the endpoint is known and
\* debugTransport installs its EventSource handlers.
StartReturns ==
  /\ Running
  /\ Settled
  /\ conn # "none"
  /\ transport = "starting"
  /\ Commit([Cur EXCEPT !.transport = "open"])
  /\ UNCHANGED <<now, env, lineVars, sdkChains, signals>>

\* client.connect resolves (createConnection 291-304).
ConnectSucceeds ==
  /\ Running
  /\ Settled
  /\ conn # "none"
  /\ transport = "open"
  /\ Commit(processQueue([Cur EXCEPT !.reconnectAttempts = 0, !.reconnecting = FALSE,
                                     !.conn = "none", !.attemptNo = 0],
                         TRUE, IF conn = "re" THEN "exec" ELSE "none"))
  /\ UNCHANGED <<now, env, lineVars, sdkChains, signals>>

\* client.connect rejects.  After start() the SDK closes the client it failed to
\* initialize, which closes the transport and calls its onclose.
ConnectFails ==
  /\ Running
  /\ Settled
  /\ conn # "none"
  /\ env.fails > 0
  /\ env' = [env EXCEPT !.fails = @ - 1]
  /\ LET s0 == [Cur EXCEPT !.conn = "none",
                           !.transport = IF @ = "open" THEN "closed" ELSE @]
         s1 == IF sdkChains /\ transport = "open" THEN transportOnClose(s0) ELSE s0
     IN Commit(createConnectionCatch(s1, conn = "re", FetchFailed))
  /\ UNCHANGED <<now, lineVars, sdkChains, signals>>

\* client.connect of a replaced connection rejects.
OldConnectFails ==
  /\ Running
  /\ Settled
  /\ env.fails > 0
  /\ env' = [env EXCEPT !.fails = @ - 1]
  /\ \E k \in {"init", "re"} :
       /\ oldConns[k] > 0
       /\ Commit(createConnectionCatch([Cur EXCEPT !.oldConns[k] = @ - 1], k = "re", FetchFailed))
  /\ UNCHANGED <<now, lineVars, sdkChains, signals>>

\* A POST in flight is answered 2xx.
SendSucceeds ==
  /\ Running
  /\ \E i \in DOMAIN inflight :
       /\ inflight[i].cur
       /\ transport = "open"
       /\ LET r == inflight[i]
              s == [Cur EXCEPT !.inflight = Remove(@, i),
                               !.delivered = IF r.f.uid > 0 THEN @ \cup {r.f.uid} ELSE @,
                               !.resent = @ \/ r.f.uid \in delivered]
          IN Commit(CASE r.kind = "drain" -> processQueue(s, TRUE, r.owner)
                      [] r.kind = "shutdown" -> [s EXCEPT !.shutDelays = @ + 1]
                      [] OTHER -> s)
  /\ UNCHANGED <<now, env, lineVars, sdkChains, signals>>

SendCatch(s, r, error) ==
  CASE r.kind = "drain" -> processQueueCatch(s, r.f, error, r.owner)
    [] r.kind = "shutdown" -> shutdownCatch(s, error)
    [] OTHER -> handleRequestCatch(s, r.f, r.f.id, error)

\* A POST in flight fails on the live transport.
SendFails ==
  /\ Running
  /\ env.events > 0
  /\ env' = [env EXCEPT !.events = @ - 1]
  /\ \E i \in DOMAIN inflight, error \in env.errs :
       /\ inflight[i].cur
       /\ transport = "open"
       /\ Commit(SendCatch([Cur EXCEPT !.inflight = Remove(@, i),
                                      !.caught = [kind |-> "send", error |-> error,
                                                  f |-> inflight[i].f]],
                           inflight[i], error))
  /\ UNCHANGED <<now, lineVars, sdkChains, signals>>

\* A POST in flight on a closed transport was aborted.
SendAborted ==
  /\ Running
  /\ \E i \in DOMAIN inflight :
       /\ ~(inflight[i].cur /\ transport = "open")
       /\ Commit(SendCatch([Cur EXCEPT !.inflight = Remove(@, i)], inflight[i], Aborted))
  /\ UNCHANGED <<now, env, lineVars, sdkChains, signals>>

\* The "endpoint" listener of debugTransport (683-702).
EndpointEvent ==
  /\ Running
  /\ Settled
  /\ transport = "open"
  /\ env.events > 0
  /\ env' = [env EXCEPT !.events = @ - 1]
  /\ Commit(IF ~transportReady
              THEN processQueue([MarkReady(Cur) EXCEPT
                                   !.messageQueue = ensureHandshakeInQueue(@)], TRUE, "none")
              ELSE Cur)
  /\ UNCHANGED <<now, lineVars, sdkChains, signals>>

\* EventSource onmessage (706-733) with a frame that parses.
SseMessage ==
  /\ Running
  /\ Settled
  /\ transport = "open"
  /\ env.events > 0
  /\ env' = [env EXCEPT !.events = @ - 1]
  /\ \E jsonData \in SseFrames : Commit(handleResponseMessage(Cur, jsonData))
  /\ UNCHANGED <<now, lineVars, sdkChains, signals>>

\* EventSource onerror (651-669) with readyState CLOSED or CONNECTING.
EsOnError ==
  /\ Running
  /\ Settled
  /\ transport = "open"
  /\ env.events > 0
  /\ errTimers < MaxErrTimers
  /\ env' = [env EXCEPT !.events = @ - 1]
  /\ Commit(IF ~reconnecting
              THEN [Cur EXCEPT !.transportReady = FALSE, !.errTimers = @ + 1]
              ELSE Cur)
  /\ UNCHANGED <<now, lineVars, sdkChains, signals>>

\* transport.onerror (232-251), reached when the SDK chains the handlers.
TransportOnError ==
  /\ Running
  /\ Settled
  /\ sdkChains
  /\ transport \in {"starting", "open"}
  /\ env.events > 0
  /\ env' = [env EXCEPT !.events = @ - 1]
  /\ \E error \in env.errs :
       Commit(transportOnError([Cur EXCEPT !.caught = [kind |-> "transport", error |-> error]],
                               error))
  /\ UNCHANGED <<now, lineVars, sdkChains, signals>>

\* SIGINT or SIGTERM arrives: the handler calls shutdown() (907-920), which
\* closes the readline interface first.
Signal ==
  /\ Running
  /\ Settled
  /\ signals < MaxSignals
  /\ signals' = signals + 1
  /\ Commit(shutdown(Cur))
  /\ UNCHANGED <<now, env, lineVars, sdkChains>>

\* The 500 ms of a shutdown call are over (780).
ShutdownDelayDone ==
  /\ Running
  /\ Settled
  /\ shutDelays > 0
  /\ Commit(shutdownClose([Cur EXCEPT !.shutDelays = @ - 1]))
  /\ UNCHANGED <<now, env, lineVars, sdkChains, signals>>

Next ==
  \/ StdinLine
  \/ TimerFire
  \/ ErrTimerFire
  \/ StartReturns
  \/ ConnectSucceeds
  \/ ConnectFails
  \/ OldConnectFails
  \/ SendSucceeds
  \/ SendFails
  \/ SendAborted
  \/ EndpointEvent
  \/ SseMessage
  \/ EsOnError
  \/ TransportOnError

Spec == Init /\ [][Next]_vars

\* The same program with one stdin line, one upstream event and one failed
\* connect.
InitSmall ==
  /\ InitProgram
  /\ env = [lines |-> SmallLines, ticks |-> 0, events |-> SmallBudget,
            fails |-> SmallConnectFails,
            closeFails |-> FALSE, errs |-> SendErrors]

SpecSmall == InitSmall /\ [][Next]_vars

\* One request and an upstream that refuses two connections and is healthy
\* afterwards: a cycle that reaches its third attempt.
InitRotate ==
  /\ InitProgram
  /\ env = [lines |-> RotateLines, ticks |-> 0, events |-> RotateBudget,
            fails |-> RotateConnectFails,
            closeFails |-> FALSE, errs |-> SendErrors]

NextRotate ==
  \/ StdinLine
  \/ TimerFire
  \/ StartReturns
  \/ ConnectSucceeds
  \/ ConnectFails
  \/ OldConnectFails
  \/ SendSucceeds
  \/ SendAborted
  \/ EndpointEvent

SpecRotate == InitRotate /\ [][NextRotate]_vars

\* A healthy connection whose upstream answers: no connect and no POST fails,
\* the transport reports no error.
InitAnswers ==
  /\ InitProgram
  /\ env = [lines |-> AnswerLines, ticks |-> 0, events |-> AnswerBudget, fails |-> 0,
            closeFails |-> FALSE, errs |-> SendErrors]

NextAnswers ==
  \/ StdinLine
  \/ TimerFire
  \/ StartReturns
  \/ ConnectSucceeds
  \/ SendSucceeds
  \/ SendAborted
  \/ EndpointEvent
  \/ SseMessage

SpecAnswers == InitAnswers /\ [][NextAnswers]_vars

\* A healthy upstream and a client whose lines may be no JSON.
InitStdin ==
  /\ InitProgram
  /\ env = [lines |-> StdinLines, ticks |-> 0, events |-> StdinBudget, fails |-> 0,
            closeFails |-> FALSE, errs |-> SendErrors]

NextStdin ==
  \/ StdinLine
  \/ StdinInvalid
  \/ TimerFire
  \/ StartReturns
  \/ ConnectSucceeds
  \/ SendSucceeds
  \/ SendAborted
  \/ EndpointEvent

SpecStdin == InitStdin /\ [][NextStdin]_vars

\* An upstream whose sends and transport fail with every kind of error.
InitErrors ==
  /\ InitProgram
  /\ env = [lines |-> ErrorsLines, ticks |-> 0, events |-> ErrorsBudget, fails |-> 0,
            closeFails |-> FALSE, errs |-> UpstreamErrors]

NextErrors ==
  \/ StdinLine
  \/ TimerFire
  \/ StartReturns
  \/ ConnectSucceeds
  \/ SendSucceeds
  \/ SendFails
  \/ SendAborted
  \/ EndpointEvent
  \/ TransportOnError

SpecErrors == InitErrors /\ [][NextErrors]_vars

\* The substrings getErrorCodeForMessage (74-101) and isFatalConnectionError
\* (338-352) look for.
Triggers ==
  { "Could not find session", "Session expired", "Invalid session", "404",
    "Received request before initialization was complete", "Connection lost", "fetch failed",
    "network error", "ECONNREFUSED", "Not connected", "Request timed out", "timed out",
    "timeout", "connection", "parse", "Invalid JSON", "invalid request", "Invalid request" }

\* A message that holds "Request timed out" holds "timed out".
ClassifierInputs ==
  { Msg("message", subs \cup (IF "Request timed out" \in subs THEN {"timed out"} ELSE {})) :
      subs \in { S \in SUBSET Triggers : Cardinality(S) <= MaxTriggers } }

\* writeErrorMessage(message) with no code and no id given.
WriteError ==
  /\ Running
  /\ stdout = <<>>
  /\ \E message \in env.errs :
       Commit(writeErrorMessage([Cur EXCEPT !.caught = [kind |-> "message", error |-> message]],
                                message, "auto", NoId))
  /\ UNCHANGED <<now, env, lineVars, sdkChains, signals>>

\* The classifier alone: one message, chosen at the start, is written.
InitClassifier ==
  /\ InitProgram
  /\ \E message \in ClassifierInputs :
       env = [lines |-> 0, ticks |-> 0, events |-> 0, fails |-> 0, closeFails |-> FALSE,
              errs |-> {message}]

NextClassifier == WriteError

SpecClassifier == InitClassifier /\ [][NextClassifier]_vars

\* Queues of at most MaxQueue frames: the handshake, a request, the client's
\* own initialize with id 0 and one with another id.
RECURSIVE QueuesOf(_)
QueuesOf(n) ==
  IF n = 0 THEN { <<>> }
  ELSE LET shorter == QueuesOf(n - 1) IN
       shorter \cup { Append(q, f) : q \in { p \in shorter : Len(p) = n - 1 },
                                    f \in { handshakeMessage,
                                            Frame(1, "n1", "ping", NoId, "none"),
                                            Frame(2, "n0", "initialize", NoId, "none"),
                                            Frame(3, "n1", "initialize", NoId, "none") } }

\* ensureHandshakeInQueue() called on the queue.
Promote ==
  /\ Running
  /\ caught = NoCaught
  /\ Commit([Cur EXCEPT !.caught = [kind |-> "queue", q |-> messageQueue],
                        !.messageQueue = ensureHandshakeInQueue(@)])
  /\ UNCHANGED <<now, env, lineVars, sdkChains, signals>>

\* The promotion alone, on a queue chosen at the start.
InitPromote ==
  /\ \E q \in QueuesOf(MaxQueue) : InitWithQueue(q)
  /\ env = [lines |-> 0, ticks |-> 0, events |-> 0, fails |-> 0, closeFails |-> FALSE,
            errs |-> {}]

NextPromote == Promote

SpecPromote == InitPromote /\ [][NextPromote]_vars

\* The program with signals: one stdin line, one upstream event, one failed
\* connect, two signals.  No step is taken after process.exit.
InitShutdown ==
  /\ InitProgram
  /\ \E c \in BOOLEAN :
       env = [lines |-> ShutdownLines, ticks |-> 0, events |-> ShutdownBudget,
              fails |-> ShutdownConnectFails, closeFails |-> c, errs |-> SendErrors]

NextShutdown ==
  \/ StdinLine
  \/ TimerFire
  \/ ErrTimerFire
  \/ StartReturns
  \/ ConnectSucceeds
  \/ ConnectFails
  \/ OldConnectFails
  \/ SendSucceeds
  \/ SendFails
  \/ SendAborted
  \/ EndpointEvent
  \/ SseMessage
  \/ EsOnError
  \/ TransportOnError
  \/ Signal
  \/ ShutdownDelayDone

SpecShutdown == InitShutdown /\ [][NextShutdown]_vars

\* The upstream is down: every connect fails before the endpoint is known, no
\* SSE event arrives.
InitRecovery ==
  /\ InitProgram
  /\ env = [lines |-> MaxLines, ticks |-> MaxTicks, events |-> 0,
            fails |-> maxReconnectAttempts,
            closeFails |-> FALSE, errs |-> SendErrors]

NextRecovery ==
  \/ Tick
  \/ StdinLine
  \/ TimerFire
  \/ ConnectFails

SpecRecovery == InitRecovery /\ [][NextRecovery]_vars

\* ===== properties =====
QueueUids == { messageQueue[i].uid : i \in DOMAIN messageQueue }
InflightUids == { inflight[i].f.uid : i \in DOMAIN inflight }
\* The stdin frame u is queued, in flight, answered upstream, or was removed by
\* a cancellation.
Held(u) == u \in QueueUids \cup InflightUids \cup delivered \cup cancelled

\* C1: once READY has been left and entered again, the first frame POSTed after
\* that is the handshake: method "initialize" and id 0.
C1_FirstPostIsHandshake ==
  firstPost # <<>> => firstPost[1] = [method |-> "initialize", id |-> "n0"]

\* C2: no frame with an id that was read while not READY is lost: until it is
\* POSTed and answered it stays in the queue or in flight, unless a
\* cancellation removed it.
C2_QueuedFramesNotLost ==
  \A u \in 1..nread : (stdinLog[u].hasId /\ ~stdinLog[u].ready) => Held(u)

\* C3: a stdin frame is dropped only if it has no id and was read while not
\* READY; every other frame is sent, in flight or queued, whatever its id and
\* also after a failed send.
C3_OnlyNotReadyNotificationsDropped ==
  \A u \in 1..nread :
    (stdinLog[u].hasId \/ stdinLog[u].ready) => Held(u)

\* C4: frames read with no reconnect in between are first POSTed in the order
\* they were read.
C4_PostedInStdinOrder == ~overtaken

\* C5: a frame without id read while not READY is never queued and never POSTed,
\* also after later reconnects.
C5_NotReadyNotificationNeverSent ==
  \A u \in 1..nread :
    (~stdinLog[u].hasId /\ ~stdinLog[u].ready)
      => u \notin QueueUids \cup InflightUids \cup everPosted

\* A notification was dropped, the bridge reconnected afterwards, became READY
\* and drained its queue.
C5_Witness ==
  \E u \in 1..nread :
    /\ ~stdinLog[u].hasId /\ ~stdinLog[u].ready
    /\ cut >= u
    /\ transportReady /\ messageQueue = <<>> /\ inflight = <<>>

IsCancellation(m) == m.method = "notifications/cancelled"
IsTimeoutCancellation(m) == IsCancellation(m) /\ ReasonIncludesTimeout(m.reason)
\* The step reads one line from stdin.
ReadsLine == nread' = nread + 1

\* C6: reading a cancellation with requestId k removes exactly the queued frames
\* whose id is k, keeps the others in their order, and does not queue the
\* cancellation itself.
C6_CancellationFiltersQueue ==
  [][(ReadsLine /\ IsCancellation(lastLine'))
       => /\ messageQueue' = SelectSeq(messageQueue, LAMBDA m : m.id # lastLine'.requestId)
          /\ nread' \notin { messageQueue'[i].uid : i \in DOMAIN messageQueue' }]_vars

\* A cancellation read while not READY removed a frame and left at least two.
C6_Witness ==
  /\ IsCancellation(lastLine)
  /\ ~transportReady
  /\ cancelled # {}
  /\ Len(messageQueue) >= 2
  /\ messageQueue[1].uid < messageQueue[2].uid

InRecovery ==
  /\ reconnectAttempts >= maxReconnectAttempts
  /\ ~reconnecting
  /\ timers = 0
  /\ conn = "none"

IsExhaustionFrame(f) ==
  /\ f.type = "error"
  /\ f.code = "ConnectionClosed"
  /\ f.message.text = "Failed to reconnect after 5 attempts"
NumExhaustionFrames(out) == Cardinality({ i \in DOMAIN out : IsExhaustionFrame(out[i]) })

\* C8: the step in which the attempts are exhausted writes exactly one
\* ConnectionClosed error frame "Failed to reconnect after M attempts: ...".
C8_OneFrameAtExhaustion ==
  [][(~InRecovery /\ InRecovery') => NumExhaustionFrames(stdout') = 1]_vars

\* C9: in RECOVERY a timer is scheduled or a connect started only by a client
\* request read more than recoveryInterval after the last attempt.
C9_RecoveryLeftOnlyByRequest ==
  [][(InRecovery /\ (timers' > 0 \/ conn' # "none"))
       => /\ ReadsLine
          /\ lastLine'.id # NoId
          /\ now - lastReconnectAttempt > recoveryInterval]_vars

\* C10: a client request read in RECOVERY more than recoveryInterval after the
\* last attempt resets reconnectAttempts and schedules an attempt (the counter
\* then counts that attempt); read earlier it is only queued, and the bridge
\* stays in RECOVERY with its counters unchanged.
C10_RequestRearmsUnderRateLimit ==
  [][(InRecovery /\ ReadsLine /\ lastLine'.id # NoId)
       => IF now - lastReconnectAttempt > recoveryInterval
            THEN /\ reconnectAttempts' = 1
                 /\ reconnecting' /\ timers' = 1
            ELSE /\ InRecovery'
                 /\ reconnectAttempts' = reconnectAttempts
                 /\ lastReconnectAttempt' = lastReconnectAttempt
                 /\ nread' \in { messageQueue'[i].uid : i \in DOMAIN messageQueue' }]_vars

\* ----- the session id policy -----
\* The step starts a reconnect connection attempt (createConnection(true) reaches
\* its await of client.connect).
StartsAttempt == attemptNo' = attemptNo + 1

\* C11: in each reconnection cycle the first two reconnect connection attempts
\* use originalSessionId as the session id, and the third and every later
\* attempt of the cycle uses a freshly generated one.
C11_SessionRotatesAtThirdAttempt ==
  [][StartsAttempt =>
       sessionId' = IF attemptNo' <= 2 THEN originalSessionId ELSE "fresh"]_vars

\* C12: originalSessionId is assigned once, at the initial connection, and keeps
\* that value in every later state, whatever reconnect attempts, successful
\* reconnects, session id rotations and recoveries happen.
C12_OriginalSessionIdKept == originalSessionId = "orig"

\* READY again on a rotated session id.
C12_Witness == sessionId = "fresh" /\ attemptNo = 0 /\ transportReady /\ originalSessionId = "orig"

\* ----- the backoff schedule -----
\* min(reconnectDelay * 1.5^(k-1), 10000) ms, in 1/64 ms.
NominalDelay(k) ==
  IF reconnectDelay * Pow(3, k - 1) >= 10000 * Pow(2, k - 1) THEN 10000 * 64
  ELSE (reconnectDelay * 64 * Pow(3, k - 1)) \div Pow(2, k - 1)

\* C13: the delay scheduled for the k-th consecutive attempt, the one that
\* follows the attemptNo attempts the cycle has made, is
\* min(reconnectDelay * 1.5^(k-1), 10000) ms, which makes the delays of a cycle
\* non-decreasing and at most 10000 ms.
C13_BackoffSchedule ==
  scheduled # 0 =>
    /\ scheduled = NominalDelay(attemptNo + 1)
    /\ scheduled <= 10000 * 64

\* ----- one reconnection at a time -----
\* createConnection calls that await client.connect.
ExecutingAttempts == (IF conn # "none" THEN 1 ELSE 0) + oldConns.init + oldConns.re

\* C14: at every instant there is at most one pending reconnect timer and at
\* most one executing connection attempt, the initial connection included.
C14_OneReconnectionInFlight ==
  /\ timers <= 1
  /\ ExecutingAttempts <= 1

\* ----- frame fidelity -----
\* C15: every frame read from stdin while the bridge is READY reaches the
\* upstream in exactly one POST: it is not sent twice and, until its POST is
\* answered, it is in flight or queued (or withdrawn by a cancellation), never
\* silently discarded.
C15_ReadyFramePostedOnce ==
  /\ ~resent
  /\ \A u \in 1..nread : stdinLog[u].ready => Held(u)

\* ----- shutdown -----
\* C16: after a shutdown signal at most one further POST is issued, and it is
\* the notifications/cancelled frame with reason "Client shutting down".
C16_OnePostAfterSignal == latePosts <= 1 /\ ~lateOther

\* C17: after a shutdown signal nothing more is written to stdout.
C17_NoStdoutAfterSignal == signals > 0 => stdout = <<>>

\* C18: a shutdown signal terminates the process with exit code 0, whether or
\* not the notification can be sent and closing the client succeeds.
C18_ExitsWithZero == exitCode \in {"none", "0"}

\* ----- error responses of the upstream -----
\* The SessionLost substrings of an error message.
MatchesSessionLost(message) ==
  \E sub \in {"Could not find session", "Session expired", "Invalid session", "404",
              "Received request before initialization was complete"} : Includes(message, sub)

\* The step forwards an error response of the upstream: the frame is the first
\* one the step writes to stdout.
ForwardsServerError ==
  /\ stdout' # <<>>
  /\ stdout'[1] \in { f \in SseFrames : f.type = "error" }

\* C19: on an error response whose message matches a SessionLost substring,
\* stdout receives the frame and a notifications/cancelled with the same id
\* and the message as its reason, and the bridge leaves READY and starts a
\* reconnect cycle.
C19_SessionErrorForwardedWithCancel ==
  [][(ForwardsServerError /\ MatchesSessionLost(stdout'[1].message)) =>
       /\ stdout' = <<stdout'[1], CancelNotification(stdout'[1].id, stdout'[1].message)>>
       /\ ~transportReady'
       /\ reconnecting']_vars

C21_StdoutInArrivalOrder ==
  \A i \in DOMAIN stdout :
    /\ stdout[i] \in SseFrames => i = 1
    /\ stdout[i].type = "cancelled" =>
         /\ i = 2
         /\ stdout[1] \in SseFrames
         /\ stdout[1].type = "error"
         /\ stdout[i] = CancelNotification(stdout[1].id, stdout[1].message)

\* An error frame and its derivative were written while the bridge was READY.
C21_Witness ==
  /\ transportReady
  /\ stdout = <<ServerError("n1", Boom), CancelNotification("n1", Boom)>>

\* ----- synthesized error frames -----
\* The error frames the last step synthesized (frames of the upstream carry no
\* code field of their own in the model).
SynthesizedErrors == { i \in DOMAIN stdout : "code" \in DOMAIN stdout[i] }

\* C22: every error frame the bridge synthesizes has an id that is neither
\* null nor missing.
C22_SynthesizedIdNotNull ==
  \A i \in SynthesizedErrors : stdout[i].id \notin {NoId, NullId}

\* The catch block of the stdin handler wrote a frame with its null request id.
C22_Witness ==
  \E i \in SynthesizedErrors :
    /\ Includes(stdout[i].message, "Connection lost")
    /\ stdout[i].id = "error-<unixMs>"

\* C28: a stdin line that is not JSON makes the bridge write one error frame
\* to stdout and nothing else: readiness, the queue, the reconnect counters
\* and the timer are unchanged and nothing is POSTed.
C28_InvalidLineAnsweredOnly ==
  [][(env'.lines = env.lines - 1 /\ nread' = nread) =>
       /\ Len(stdout') = 1
       /\ "code" \in DOMAIN stdout'[1]
       /\ UNCHANGED <<transportReady, messageQueue, reconnecting, reconnectAttempts,
                      consecutiveTimeouts, lastReconnectAttempt, reconnectTimer, timers,
                      inflight, everPosted>>]_vars

\* ----- the first handshake -----
\* The step is the endpoint event that makes the bridge READY for the first time.
FirstEndpointEvent ==
  /\ env'.events = env.events - 1
  /\ ~everReady
  /\ everReady'
  /\ stdout' = <<>>

\* C23: a request with an id read from stdin before the first endpoint event
\* is POSTed after the initialize frame: when the endpoint event arrives the
\* initialize frame (id 0) goes out first and the request waits behind it in
\* the queue, not POSTed before and not dropped.
C23_HandshakeThenQueuedRequest ==
  [][FirstEndpointEvent =>
       \A u \in 1..nread :
         stdinLog[u].hasId =>
           /\ \E i \in DOMAIN inflight' : /\ inflight'[i].kind = "drain"
                                           /\ inflight'[i].f = handshakeMessage
           /\ u \notin everPosted'
           /\ u \in { messageQueue'[i].uid : i \in DOMAIN messageQueue' }]_vars

\* ----- classification of sender and transport errors -----
MatchesConnectionLost(message) ==
  \E sub \in {"Connection lost", "fetch failed", "network error", "ECONNREFUSED",
               "Not connected"} : Includes(message, sub)
MatchesTimeout(message) == Includes(message, "timed out") \/ Includes(message, "timeout")
SessionLostTrigger(message) ==
  \E sub \in {"Could not find session", "Session expired", "Invalid session", "404",
               "Received request before initialization was complete"} : Includes(message, sub)
\* The step started a reconnection cycle.
StartsReconnect == reconnecting' /\ (~reconnecting \/ timers' > timers)

\* C24: a send of a frame with an id that fails with an error of no class
\* leaves the bridge not READY, the frame at the front of the queue and a
\* reconnection under way.
C24_TransientSendRequeuesAndReconnects ==
  [][(/\ caught'.kind = "send"
      /\ caught'.f.id # NoId
      /\ ~SessionLostTrigger(caught'.error)
      /\ ~MatchesConnectionLost(caught'.error)
      /\ ~MatchesTimeout(caught'.error))
     => /\ ~transportReady'
        /\ messageQueue' # <<>>
        /\ Head(messageQueue') = caught'.f
        /\ reconnecting']_vars

\* C25: a send that fails with a timeout error does not start a reconnection
\* while fewer than three consecutive timeouts have been counted.
C25_SingleTimeoutDoesNotReconnect ==
  [][(/\ caught'.kind = "send"
      /\ MatchesTimeout(caught'.error)
      /\ consecutiveTimeouts' < 3)
     => ~StartsReconnect]_vars

\* C26: a sender or transport error whose message holds a SessionLost or a
\* ConnectionLost trigger leaves the bridge not READY with a reconnection
\* under way.
C26_FatalTriggersReconnect ==
  [][(/\ caught'.kind \in {"send", "transport"}
      /\ SessionLostTrigger(caught'.error) \/ MatchesConnectionLost(caught'.error))
     => /\ ~transportReady'
        /\ reconnecting']_vars

\* ----- error codes -----
\* The classes of a message that name their trigger substrings, and the code
\* of each.
ClassCodes(message) ==
  (IF SessionLostTrigger(message) THEN {"MethodNotFound"} ELSE {})
    \cup (IF MatchesTimeout(message) THEN {"RequestTimeout"} ELSE {})
    \cup (IF MatchesConnectionLost(message) THEN {"ConnectionClosed"} ELSE {})
    \cup (IF Includes(message, "invalid request") THEN {"InvalidRequest"} ELSE {})

\* C27: the code of an error frame written without an explicit code follows
\* the class of its message: MethodNotFound for a SessionLost trigger,
\* RequestTimeout for a timeout, ConnectionClosed for a ConnectionLost trigger,
\* InvalidRequest for an invalid request, InternalError for a message of no
\* class (messages of two classes, and those holding a substring that only the
\* code looks for, are left open).
C27_CodeFollowsClass ==
  \A i \in SynthesizedErrors :
    LET message == stdout[i].message IN
    (/\ caught.kind = "message"
     /\ message.subs \cap {"connection", "parse", "Invalid JSON", "Invalid request"} = {}
     /\ Cardinality(ClassCodes(message)) <= 1)
    => stdout[i].code \in (IF ClassCodes(message) = {} THEN {"InternalError"}
                                                      ELSE ClassCodes(message))

\* ----- entering READY -----
\* The step's drain took the head of the queue q to the sender and left the
\* rest in its order.
DrainsFrom(q) ==
  q # <<>> =>
    /\ messageQueue' = Tail(q)
    /\ inflight' # <<>>
    /\ inflight'[Len(inflight')].kind = "drain"
    /\ inflight'[Len(inflight')].f = Head(q)

\* C29: whenever the bridge becomes READY both counters are 0 and the drain of
\* the queue has begun at its head (after the initialize frame was put there,
\* when the endpoint event is what made it READY).
C29_ReadyEntryResetsCounters ==
  [][(~transportReady /\ transportReady') =>
       /\ reconnectAttempts' = 0
       /\ consecutiveTimeouts' = 0
       /\ DrainsFrom(messageQueue) \/ DrainsFrom(ensureHandshakeInQueue(messageQueue))]_vars

\* ----- the connection that was left -----
\* C30: while the bridge is not READY and state.transport still holds the
\* connection that was READY (its client.connect long resolved), nothing makes
\* the bridge READY, no frame of the upstream is written to stdout and no POST
\* goes out.
C30_OldConnectionHasNoEffect ==
  [][(/\ leftReady
      /\ ~transportReady
      /\ conn = "none"
      /\ transport = "open"
      /\ transport' = "open") =>
       /\ ~transportReady'
       /\ \A i \in DOMAIN stdout' : stdout'[i] \notin SseFrames
       /\ Len(inflight') <= Len(inflight)
       /\ everPosted' = everPosted]_vars

\* ----- advisory frames -----
\* C31: from the step that leaves READY until READY is entered again or
\* RECOVERY is reached, the bridge synthesizes at most one error frame.
C31_OneAdvisoryPerLoss == advisories <= 1

\* ----- the handshake in the queue -----
HandshakeIndexes == { i \in DOMAIN messageQueue : IsInitialize(messageQueue[i]) }

\* C32: the queue holds at most one initialize frame with id 0, and only at
\* its head.
C32_OneHandshakeAtHead == HandshakeIndexes \subseteq {1}

\* ----- overlapping drains -----
\* The POSTs the step issued for a drain of the queue.
NewDrains ==
  { inflight'[i] : i \in DOMAIN inflight' } \ { inflight[i] : i \in DOMAIN inflight }
\* No frame of stdin is held twice in the queue and the sender.
HeldOnce(q, posts) ==
  \A u \in 1..MaxLines + 1 :
    Cardinality({ i \in DOMAIN q : q[i].uid = u })
      + Cardinality({ i \in DOMAIN posts : posts[i].f.uid = u }) <= 1

C34_PromotionPutsHandshakeFirst ==
  caught.kind = "queue" =>
    LET q == caught.q
        r == messageQueue
        queued == { i \in DOMAIN q : IsInitialize(q[i]) }
    IN /\ r # <<>>
       /\ IsInitialize(r[1])
       /\ Len(r) <= Len(q) + 1
       /\ IF queued = {}
            THEN r[1] = handshakeMessage /\ Tail(r) = q
            ELSE \E i \in queued : r[1] = q[i] /\ Tail(r) = Remove(q, i)
       /\ ensureHandshakeInQueue(r) = r

\* A handshake found behind other frames was moved to the head.
C34_Witness ==
  /\ caught.kind = "queue"
  /\ Len(caught.q) = 3
  /\ ~IsInitialize(caught.q[1])
  /\ IsInitialize(caught.q[3])
  /\ messageQueue = <<caught.q[3], caught.q[1], caught.q[2]>>

\* ----- giving up -----
\* C35: the frame "Failed to reconnect after M attempts" is written only when
\* M reconnect connection attempts of the cycle were made.
C35_ExhaustionAfterRealAttempts ==
  [][NumExhaustionFrames(stdout') > 0 => attemptNo >= maxReconnectAttempts]_vars

\* ----- progress outside READY -----
\* C36: while the bridge is not READY, no signal has arrived and attempts are
\* left, a reconnect timer is pending or a connection attempt is executing (a
\* connection that is open and was not READY yet, waiting for its first event,
\* is counted as one).
C36_NotStuckOutsideReady ==
  (~transportReady /\ signals = 0 /\ reconnectAttempts < maxReconnectAttempts)
    => \/ timers > 0
       \/ errTimers > 0
       \/ conn # "none"
       \/ (transport = "open" /\ ~leftReady)

\* ----- the attempt counter -----
\* C37: reconnectAttempts never exceeds maxReconnectAttempts.
C37_AttemptsWithinMaximum == reconnectAttempts <= maxReconnectAttempts

\* ----- requests during the initial connection -----
\* C38: while createConnection(false) awaits client.connect, a request with an
\* id read from stdin leaves reconnectAttempts, the reconnect timer and the
\* connection attempt as they are.
C38_InitialConnectUndisturbed ==
  [][(conn = "init" /\ ReadsLine /\ lastLine'.id # NoId)
       => /\ reconnectAttempts' = reconnectAttempts
          /\ timers' = timers
          /\ ~reconnecting'
          /\ conn' = "init"]_vars

\* ----- the reconnecting flag -----
\* executeReconnection has been called and has not returned: its
\* createConnection awaits client.connect or the drain of the queue.
ExecuteReconnectionRunning ==
  \/ conn = "re"
  \/ oldConns.re > 0
  \/ \E i \in DOMAIN inflight : inflight[i].owner = "exec"

\* C39: reconnecting is true exactly when a reconnect timer is pending or
\* executeReconnection is running.
C39_ReconnectingFlagAgrees ==
  reconnecting <=> (timers > 0 \/ ExecuteReconnectionRunning)

\* ----- READY and the transport -----
\* C40: whenever transportReady is true, state.transport is a transport that
\* is neither null nor closed.
C40_ReadyHasLiveTransport == transportReady => transport \notin {"null", "closed"}

====
